---- MODULE Spec2Model ----
(***************************************************************************)
(* Model of the FEN validator/decoder of fen_parser_gui.py: parse_fen and  *)
(* the validators it calls.  A Python str is a sequence of one-character   *)
(* strings; the two non-ASCII characters used in the inputs are written    *)
(* "sup2" (U+00B2 SUPERSCRIPT TWO) and "ar3" (U+0663 ARABIC-INDIC DIGIT    *)
(* THREE).                                                                 *)
(***************************************************************************)
EXTENDS Integers, Sequences, FiniteSets, TLC

VARIABLES fen, pc, parts, ranks, i, board, side, castling, ep, hm, fn,
          examined, result, err

vars == <<fen, pc, parts, ranks, i, board, side, castling, ep, hm, fn,
          examined, result, err>>

(***************************************************************************)
(* Bounds of the inputs.                                                   *)
(***************************************************************************)
MaxRankLen == 3
MaxCastlingLen == 4
MaxEpLen == 3
MaxNumLen == 3
MaxSideLen == 2
MaxTokens == 7

(***************************************************************************)
(* Character classes.                                                      *)
(***************************************************************************)
UNICODE_WHITE == {"P", "N", "B", "R", "Q", "K"}
UNICODE_BLACK == {"p", "n", "b", "r", "q", "k"}
ALL_PIECES == UNICODE_WHITE \cup UNICODE_BLACK
DIGITS_1_7 == {"1", "2", "3", "4", "5", "6", "7"}

\* Characters str.strip() removes and str.split() separates on.
Whitespace == {" ", "\t", "\n"}

AsciiDigits == {"0", "1", "2", "3", "4", "5", "6", "7", "8", "9"}

\* Characters for which str.isdigit() is true: the decimal digits of any
\* script and the digit-like characters such as superscripts.
IsDigitChars == AsciiDigits \cup {"ar3", "sup2"}

\* Characters int() converts: the decimal digits of any script only.
DecimalChars == AsciiDigits \cup {"ar3"}

DigitValue(ch) ==
    CASE ch = "0" -> 0 [] ch = "1" -> 1 [] ch = "2" -> 2 [] ch = "3" -> 3
      [] ch = "4" -> 4 [] ch = "5" -> 5 [] ch = "6" -> 6 [] ch = "7" -> 7
      [] ch = "8" -> 8 [] ch = "9" -> 9 [] ch = "ar3" -> 3

\* The cell value None of the board.
None == "None"

\* The classification tags set by the two exception subclasses.
LEXICAL == "LEXICAL"
SYNTACTIC == "PARSE"

(***************************************************************************)
(* Exceptions.  The message text is kept as what it names: the field, the  *)
(* reason, and the row, character or count it interpolates (0 / "" when    *)
(* the message has none).                                                  *)
(***************************************************************************)
\* LexicalError carrying the tag of ParseError.
LexicalError_TaggedParse(field, reason, row, ch, n) ==
    [type |-> "LexicalError", kind |-> "PARSE", field |-> field,
     reason |-> reason, row |-> row, ch |-> ch, n |-> n]

LexicalError(field, reason, row, ch, n) ==
    [type |-> "LexicalError", kind |-> LEXICAL, field |-> field,
     reason |-> reason, row |-> row, ch |-> ch, n |-> n]

ParseError(field, reason, row, ch, n) ==
    [type |-> "ParseError", kind |-> SYNTACTIC, field |-> field,
     reason |-> reason, row |-> row, ch |-> ch, n |-> n]

\* int() raising on a string it cannot convert; not a FenError, no kind.
ValueError(field) ==
    [type |-> "ValueError", kind |-> "", field |-> field,
     reason |-> "invalid_literal", row |-> 0, ch |-> "", n |-> 0]

\* Outcome of a call: a returned value, or a raised exception.
Returned(v) == [raised |-> FALSE, value |-> v, exc |-> <<>>]
Raised(e) == [raised |-> TRUE, value |-> <<>>, exc |-> <<e>>]

(***************************************************************************)
(* String helpers of the Python runtime.                                   *)
(***************************************************************************)
RECURSIVE LStrip(_)
LStrip(s) ==
    IF s # <<>> /\ Head(s) \in Whitespace THEN LStrip(Tail(s)) ELSE s

RECURSIVE RStrip(_)
RStrip(s) ==
    IF s # <<>> /\ s[Len(s)] \in Whitespace
    THEN RStrip(SubSeq(s, 1, Len(s) - 1)) ELSE s

\* str.strip()
Strip(s) == RStrip(LStrip(s))

\* Length of the longest prefix of s made of characters outside stop.
RECURSIVE RunLen(_, _)
RunLen(s, stop) ==
    IF s = <<>> \/ Head(s) \in stop THEN 0 ELSE 1 + RunLen(Tail(s), stop)

\* str.split(" "): one piece per single space, empty pieces included.
RECURSIVE SplitWhitespace_OnSpace(_)
SplitWhitespace_OnSpace(s) ==
    LET k == RunLen(s, {" "})
    IN  IF k = Len(s) THEN <<s>>
        ELSE <<SubSeq(s, 1, k)>>
                \o SplitWhitespace_OnSpace(SubSeq(s, k + 2, Len(s)))

\* str.split() with no argument: the maximal runs of non-whitespace.
RECURSIVE SplitWhitespace(_)
SplitWhitespace(s) ==
    IF s = <<>> THEN <<>>
    ELSE IF Head(s) \in Whitespace THEN SplitWhitespace(Tail(s))
    ELSE LET k == RunLen(s, Whitespace)
         IN  <<SubSeq(s, 1, k)>> \o SplitWhitespace(SubSeq(s, k + 1, Len(s)))

\* str.split(sep) with a one-character separator: always at least one piece.
RECURSIVE SplitOn(_, _)
SplitOn(s, sep) ==
    LET k == RunLen(s, {sep})
    IN  IF k = Len(s) THEN <<s>>
        ELSE <<SubSeq(s, 1, k)>> \o SplitOn(SubSeq(s, k + 2, Len(s)), sep)

\* Nones with one cell too few.
Nones_OneShort(count) == [x \in 1..(count - 1) |-> None]

\* [None] * count
Nones(count) == [x \in 1..count |-> None]

\* str.isdigit()
IsDigit(s) == s # <<>> /\ \A x \in 1..Len(s) : s[x] \in IsDigitChars

RECURSIVE DecimalOf(_)
DecimalOf(s) ==
    IF s = <<>> THEN 0
    ELSE 10 * DecimalOf(SubSeq(s, 1, Len(s) - 1)) + DigitValue(s[Len(s)])

\* int(s) for a string that passed isdigit().
IntOf(s) ==
    IF \A x \in 1..Len(s) : s[x] \in DecimalChars
    THEN Returned(DecimalOf(s))
    ELSE Raised("ValueError")

(***************************************************************************)
(* The validators.                                                         *)
(***************************************************************************)
\* The while loop of _parse_piece_placement over one rank, from index j
\* with the cells accumulated so far in row; rank is row number r.
RECURSIVE ScanRank(_, _, _, _)
ScanRank(rank, r, j, row) ==
    IF j > Len(rank)
    THEN IF Len(row) # 8
         THEN Raised(ParseError("placement", "row_length", r, "", Len(row)))
         ELSE Returned(row)
    ELSE LET ch == rank[j]
         IN  IF ch \in ALL_PIECES
             THEN ScanRank(rank, r, j + 1, Append(row, ch))
             ELSE IF ch \in DIGITS_1_7
             THEN ScanRank(rank, r, j + 1, row \o Nones(DigitValue(ch)))
             ELSE IF ch = "8"
             THEN Raised(ParseError("placement", "eight_mixed", r, "8", 0))
             ELSE Raised(LexicalError("placement", "bad_char", r, ch, 0))

\* DecodeRank without the test for the rank being exactly "8".
DecodeRank_NoShortcut(rank, r) == ScanRank(rank, r, 1, <<>>)

\* DecodeRank rejecting the characters outside the alphabet of the whole
\* rank before it scans the rank.
DecodeRank_IllegalFirst(rank, r) ==
    LET bad == {x \in 1..Len(rank) :
                    rank[x] \notin ALL_PIECES \cup DIGITS_1_7 \cup {"8"}}
        first == CHOOSE x \in bad : \A y \in bad : x <= y
    IN  IF rank = <<"8">> THEN Returned(Nones(8))
        ELSE IF bad # {}
        THEN Raised(LexicalError("placement", "bad_char", r, rank[first], 0))
        ELSE ScanRank(rank, r, 1, <<>>)

\* One iteration of the for loop of _parse_piece_placement.
DecodeRank(rank, r) ==
    IF rank = <<"8">> THEN Returned(Nones(8)) ELSE ScanRank(rank, r, 1, <<>>)

_parse_side_to_move(s) ==
    IF s \notin {<<"w">>, <<"b">>}
    THEN Raised(ParseError("side", "not_w_or_b", 0, "", 0))
    ELSE Returned(s)

\* The for loop of _parse_castling from index j with the flags seen so far.
RECURSIVE ScanCastling(_, _, _)
ScanCastling(c, j, seen) ==
    IF j > Len(c) THEN Returned(c)
    ELSE LET ch == c[j]
         IN  IF ch \notin {"K", "Q", "k", "q"}
             THEN Raised(LexicalError("castling", "bad_flag", 0, ch, 0))
             ELSE IF ch \in seen
             THEN Raised(ParseError("castling", "duplicate", 0, ch, 0))
             ELSE ScanCastling(c, j + 1, seen \cup {ch})

\* _parse_castling returning the flags in the order K, Q, k, q.
_parse_castling_Normalized(c) ==
    IF c = <<"-">> THEN Returned(c)
    ELSE LET r == ScanCastling(c, 1, {})
         IN  IF r.raised THEN r
             ELSE Returned(SelectSeq(<<"K", "Q", "k", "q">>,
                                     LAMBDA f : \E x \in 1..Len(c) : c[x] = f))

_parse_castling(c) ==
    IF c = <<"-">> THEN Returned(c) ELSE ScanCastling(c, 1, {})

\* _parse_en_passant testing the rank before the file.
_parse_en_passant_RankFirst(e) ==
    IF e = <<"-">> THEN Returned(e)
    ELSE IF Len(e) # 2
    THEN Raised(ParseError("en_passant", "length", 0, "", 0))
    ELSE IF e[2] \notin {"3", "6"}
    THEN Raised(ParseError("en_passant", "bad_rank", 0, e[2], 0))
    ELSE IF e[1] \notin {"a", "b", "c", "d", "e", "f", "g", "h"}
    THEN Raised(LexicalError("en_passant", "bad_file", 0, e[1], 0))
    ELSE Returned(e)

_parse_en_passant(e) ==
    IF e = <<"-">> THEN Returned(e)
    ELSE IF Len(e) # 2
    THEN Raised(ParseError("en_passant", "length", 0, "", 0))
    ELSE IF e[1] \notin {"a", "b", "c", "d", "e", "f", "g", "h"}
    THEN Raised(LexicalError("en_passant", "bad_file", 0, e[1], 0))
    ELSE IF e[2] \notin {"3", "6"}
    THEN Raised(ParseError("en_passant", "bad_rank", 0, e[2], 0))
    ELSE Returned(e)

_parse_halfmove_clock(s) ==
    IF ~IsDigit(s)
    THEN Raised(LexicalError("halfmove", "not_digits", 0, "", 0))
    ELSE LET val == IntOf(s)
         IN  IF val.raised THEN Raised(ValueError("halfmove"))
             ELSE IF val.value < 0
             THEN Raised(ParseError("halfmove", "negative", 0, "", 0))
             ELSE Returned(val.value)

_parse_fullmove_number(s) ==
    IF ~IsDigit(s)
    THEN Raised(LexicalError("fullmove", "not_digits", 0, "", 0))
    ELSE LET val == IntOf(s)
         IN  IF val.raised THEN Raised(ValueError("fullmove"))
             ELSE IF val.value < 1
             THEN Raised(ParseError("fullmove", "below_one", 0, "", 0))
             ELSE Returned(val.value)

(***************************************************************************)
(* The inputs: text lines given to parse_fen.                              *)
(***************************************************************************)
\* All strings over alphabet of length at most n.
Strings(alphabet, n) == UNION {[1..k -> alphabet] : k \in 0..n}

RECURSIVE Join(_, _)
Join(tokens, sep) ==
    IF tokens = <<>> THEN <<>>
    ELSE IF Len(tokens) = 1 THEN tokens[1]
    ELSE tokens[1] \o sep \o Join(Tail(tokens), sep)

START_PLACEMENT ==
    <<"r", "n", "b", "q", "k", "b", "n", "r", "/",
      "p", "p", "p", "p", "p", "p", "p", "p", "/",
      "8", "/", "8", "/", "8", "/", "8", "/",
      "P", "P", "P", "P", "P", "P", "P", "P", "/",
      "R", "N", "B", "Q", "K", "B", "N", "R">>

\* The placements of the first and third example of FenApp.on_examples.
EXAMPLE_VALID_PLACEMENT ==
    <<"2", "r", "3", "k", "1", "/", "p", "3", "b", "q", "p", "1", "/",
      "Q", "2", "p", "3", "p", "/", "3", "P", "p", "3", "/",
      "P", "3", "N", "3", "/", "8", "/", "5", "P", "P", "P", "/",
      "5", "R", "K", "1">>

EXAMPLE_INVALID_PLACEMENT ==
    <<"2", "r", "3", "k", "7", "/", "p", "3", "b", "q", "p", "1", "/",
      "Q", "2", "p", "3", "p", "/", "3", "P", "p", "3", "/",
      "P", "3", "C", "3", "/", "8", "/", "5", "P", "P", "P", "/",
      "5", "R", "K", "1">>

EXAMPLE_INVALID_FEN ==
    Join(<<EXAMPLE_INVALID_PLACEMENT, <<"b">>, <<"-">>, <<"-">>, <<"1">>,
           <<"2", "7">>>>, <<" ">>)

\* n ranks "8".
EmptyRanks(n) == [x \in 1..n |-> <<"8">>]

RankAlphabet == {"p", "1", "3", "4", "8", "x"}
RankInputs == Strings(RankAlphabet, MaxRankLen)

\* Placements of 8 ranks "8" in which rank a is r and rank b is q: the
\* varied rank comes first or fifth, with a second malformed rank after or
\* before it.
PlacementInputs ==
    {Join([EmptyRanks(8) EXCEPT ![v[1]] = r, ![v[2]] = v[3]], <<"/">>) :
        r \in RankInputs,
        v \in {<<1, 5, <<"8">>>>, <<1, 5, <<"x">>>>, <<1, 5, <<"p", "8">>>>,
               <<5, 1, <<"x">>>>, <<5, 1, <<"4">>>>}}

SideInputs == Strings({"w", "b", "W"}, MaxSideLen)
CastlingInputs ==
    Strings({"K", "Q", "k", "q", "x"}, MaxCastlingLen)
        \cup {<<"-">>, <<"-", "-">>, <<"K", "-">>, <<"-", "K">>}
EpInputs ==
    Strings({"a", "h", "i", "3", "4", "6", "-"}, MaxEpLen)
        \cup ({"a", "b", "c", "d", "e", "f", "g", "h", "i"}
                \X {"3", "4", "6"})
NumInputs == Strings({"0", "1", "-", "ar3", "sup2"}, MaxNumLen)

\* The six fields of a valid record.
ValidFields ==
    <<Join(EmptyRanks(8), <<"/">>), <<"w">>, <<"K", "Q">>, <<"e", "3">>,
      <<"0">>, <<"1">>>>

\* Records in which one field varies over all its inputs.
OneFieldInputs ==
    LET Vary(k, S) == {Join([ValidFields EXCEPT ![k] = f], <<" ">>) : f \in S}
    IN  Vary(1, PlacementInputs) \cup Vary(2, SideInputs)
          \cup Vary(3, CastlingInputs) \cup Vary(4, EpInputs)
          \cup Vary(5, NumInputs) \cup Vary(6, NumInputs)

\* Records in which any number of fields are invalid at once.
ManyFieldInputs ==
    {Join(<<f1, f2, f3, f4, f5, f6>>, <<" ">>) :
        f1 \in {START_PLACEMENT, EXAMPLE_VALID_PLACEMENT,
                EXAMPLE_INVALID_PLACEMENT, Join(EmptyRanks(7), <<"/">>),
                Join(EmptyRanks(9), <<"/">>)},
        f2 \in {<<"w">>, <<"b">>, <<"W">>},
        f3 \in {<<"K", "Q", "k", "q">>, <<"-">>, <<"K", "K">>, <<"x">>},
        f4 \in {<<"-">>, <<"e", "6">>, <<"e", "4">>, <<"i", "3">>},
        f5 \in {<<"1">>, <<"-", "1">>, <<"sup2">>},
        f6 \in {<<"2", "7">>, <<"0">>, <<"x">>}}

\* Lines of 0..MaxTokens tokens with varied whitespace around and between.
WhitespaceInputs ==
    LET tokens == ValidFields \o <<<<"1">>, <<"w">>, <<"-">>>>
    IN  {lead \o Join(SubSeq(tokens, 1, n), sep) \o trail :
            n \in 0..MaxTokens,
            lead \in {<<>>, <<" ">>, <<"\n", "\t">>},
            sep \in {<<" ">>, <<" ", " ">>, <<"\t">>, <<" ", "\n">>},
            trail \in {<<>>, <<" ">>, <<"\t", "\n">>}}

FenInputs == OneFieldInputs \cup ManyFieldInputs \cup WhitespaceInputs

(***************************************************************************)
(* parse_fen as a state machine: one step per statement of its body, and   *)
(* one step per rank inside _parse_piece_placement.                        *)
(***************************************************************************)
\* A local of parse_fen that is not bound yet.
Unbound == <<>>

Init ==
    /\ fen \in FenInputs
    /\ pc = "split"
    /\ parts = Unbound
    /\ ranks = Unbound
    /\ i = 0
    /\ board = Unbound
    /\ side = Unbound
    /\ castling = Unbound
    /\ ep = Unbound
    /\ hm = Unbound
    /\ fn = Unbound
    /\ examined = <<>>
    /\ result = <<>>
    /\ err = <<>>

\* An exception leaving parse_fen.
Raise(e) ==
    /\ pc' = "raised"
    /\ err' = <<e>>

\* parts = fen.strip().split()
SplitFields ==
    /\ pc = "split"
    /\ parts' = SplitWhitespace(Strip(fen))
    /\ pc' = "count"
    /\ UNCHANGED <<fen, ranks, i, board, side, castling, ep, hm, fn,
                   examined, result, err>>

\* _validate_fields_count(parts), then the unpacking of the six fields.
ValidateFieldsCount ==
    /\ pc = "count"
    /\ IF Len(parts) # 6
       THEN Raise(ParseError("count", "field_count", 0, "", Len(parts)))
       ELSE pc' = "placement" /\ err' = err
    /\ UNCHANGED <<fen, parts, ranks, i, board, side, castling, ep, hm, fn,
                   examined, result>>

\* _parse_piece_placement up to the start of its for loop.
PlacementSplitRanks ==
    /\ pc = "placement"
    /\ examined' = Append(examined, "placement")
    /\ ranks' = SplitOn(parts[1], "/")
    /\ IF Len(ranks') # 8
       THEN /\ Raise(ParseError("placement", "rank_count", 0, "",
                                Len(ranks')))
            /\ UNCHANGED <<i, board>>
       ELSE /\ pc' = "placement_rank"
            /\ i' = 1
            /\ board' = <<>>
            /\ err' = err
    /\ UNCHANGED <<fen, parts, side, castling, ep, hm, fn, result>>

\* One iteration of the for loop, on rank i.
PlacementRank ==
    /\ pc = "placement_rank"
    /\ i <= Len(ranks)
    /\ LET row == DecodeRank(ranks[i], i)
       IN  IF row.raised
           THEN Raise(row.exc[1]) /\ UNCHANGED <<i, board>>
           ELSE /\ board' = Append(board, row.value)
                /\ i' = i + 1
                /\ UNCHANGED <<pc, err>>
    /\ UNCHANGED <<fen, parts, ranks, side, castling, ep, hm, fn, examined,
                   result>>

\* PlacementReturn continuing at the castling field.
PlacementReturn_SkipSide ==
    /\ pc = "placement_rank"
    /\ i > Len(ranks)
    /\ pc' = "castling"
    /\ UNCHANGED <<fen, parts, ranks, i, board, side, castling, ep, hm, fn,
                   examined, result, err>>

\* The for loop is exhausted: return board.
PlacementReturn ==
    /\ pc = "placement_rank"
    /\ i > Len(ranks)
    /\ pc' = "side"
    /\ UNCHANGED <<fen, parts, ranks, i, board, side, castling, ep, hm, fn,
                   examined, result, err>>

ParseSideToMove ==
    /\ pc = "side"
    /\ examined' = Append(examined, "side")
    /\ LET r == _parse_side_to_move(parts[2])
       IN  IF r.raised
           THEN Raise(r.exc[1]) /\ UNCHANGED side
           ELSE side' = r.value /\ pc' = "castling" /\ err' = err
    /\ UNCHANGED <<fen, parts, ranks, i, board, castling, ep, hm, fn, result>>

ParseCastling ==
    /\ pc = "castling"
    /\ examined' = Append(examined, "castling")
    /\ LET r == _parse_castling(parts[3])
       IN  IF r.raised
           THEN Raise(r.exc[1]) /\ UNCHANGED castling
           ELSE castling' = r.value /\ pc' = "en_passant" /\ err' = err
    /\ UNCHANGED <<fen, parts, ranks, i, board, side, ep, hm, fn, result>>

ParseEnPassant ==
    /\ pc = "en_passant"
    /\ examined' = Append(examined, "en_passant")
    /\ LET r == _parse_en_passant(parts[4])
       IN  IF r.raised
           THEN Raise(r.exc[1]) /\ UNCHANGED ep
           ELSE ep' = r.value /\ pc' = "halfmove" /\ err' = err
    /\ UNCHANGED <<fen, parts, ranks, i, board, side, castling, hm, fn,
                   result>>

ParseHalfmoveClock ==
    /\ pc = "halfmove"
    /\ examined' = Append(examined, "halfmove")
    /\ LET r == _parse_halfmove_clock(parts[5])
       IN  IF r.raised
           THEN Raise(r.exc[1]) /\ UNCHANGED hm
           ELSE hm' = r.value /\ pc' = "fullmove" /\ err' = err
    /\ UNCHANGED <<fen, parts, ranks, i, board, side, castling, ep, fn,
                   result>>

ParseFullmoveNumber ==
    /\ pc = "fullmove"
    /\ examined' = Append(examined, "fullmove")
    /\ LET r == _parse_fullmove_number(parts[6])
       IN  IF r.raised
           THEN Raise(r.exc[1]) /\ UNCHANGED fn
           ELSE fn' = r.value /\ pc' = "return" /\ err' = err
    /\ UNCHANGED <<fen, parts, ranks, i, board, side, castling, ep, hm,
                   result>>

\* return FenRecord(...)
FenRecord(b, s, c, e, h, f) ==
    [board |-> b, side_to_move |-> s, castling |-> c, en_passant |-> e,
     halfmove_clock |-> h, fullmove_number |-> f]

ReturnRecord ==
    /\ pc = "return"
    /\ result' = <<FenRecord(board, side, castling, ep, hm, fn)>>
    /\ pc' = "returned"
    /\ UNCHANGED <<fen, parts, ranks, i, board, side, castling, ep, hm, fn,
                   examined, err>>

Next ==
    \/ SplitFields
    \/ ValidateFieldsCount
    \/ PlacementSplitRanks
    \/ PlacementRank
    \/ PlacementReturn
    \/ ParseSideToMove
    \/ ParseCastling
    \/ ParseEnPassant
    \/ ParseHalfmoveClock
    \/ ParseFullmoveNumber
    \/ ReturnRecord

Spec == Init /\ [][Next]_vars

TypeOK ==
    /\ pc \in {"split", "count", "placement", "placement_rank", "side",
               "castling", "en_passant", "halfmove", "fullmove", "return",
               "returned", "raised"}
    /\ Len(result) <= 1
    /\ Len(err) <= 1

(***************************************************************************)
(* Vocabulary of the properties.                                           *)
(***************************************************************************)
Min(S) == CHOOSE x \in S : \A y \in S : x <= y

Finished == pc \in {"returned", "raised"}

\* The validator named field raised / has returned.
FailedIn(field) == pc = "raised" /\ err[1].field = field
PassedOrder ==
    <<"count", "placement", "side", "castling", "en_passant", "halfmove",
      "fullmove">>
StageOf(p) ==
    CASE p = "split" -> 0 [] p = "count" -> 0 [] p = "placement" -> 1
      [] p = "placement_rank" -> 1 [] p = "side" -> 2 [] p = "castling" -> 3
      [] p = "en_passant" -> 4 [] p = "halfmove" -> 5 [] p = "fullmove" -> 6
      [] p = "return" -> 7 [] p = "returned" -> 7
FieldIndex(field) == CHOOSE k \in 1..7 : PassedOrder[k] = field
\* Number of checks of PassedOrder that have returned normally.
PassedCount ==
    IF pc = "raised" THEN FieldIndex(err[1].field) - 1 ELSE StageOf(pc)
Passed(field) == PassedCount >= FieldIndex(field)
Over(field) == Passed(field) \/ FailedIn(field)

\* The cells a rank stands for: one per letter, d empty ones per digit d.
RECURSIVE Expand(_)
Expand(rank) ==
    IF rank = <<>> THEN <<>>
    ELSE (IF Head(rank) \in AsciiDigits
          THEN [x \in 1..DigitValue(Head(rank)) |-> None]
          ELSE <<Head(rank)>>) \o Expand(Tail(rank))

OnlyFrom(s, alphabet) == \A x \in 1..Len(s) : s[x] \in alphabet

WellFormedRank(rank) ==
    \/ rank = <<"8">>
    \/ /\ OnlyFrom(rank, ALL_PIECES \cup DIGITS_1_7)
       /\ Len(Expand(rank)) = 8

\* Index of the first character of rank that is neither a piece letter nor
\* a digit 1-7; 0 when there is none.
FirstOffence(rank) ==
    LET off == {x \in 1..Len(rank) : rank[x] \notin ALL_PIECES \cup DIGITS_1_7}
    IN  IF off = {} THEN 0 ELSE Min(off)

\* Number of '/' in the placement field.
SlashCount(p) == Cardinality({x \in 1..Len(p) : p[x] = "/"})

\* Number of tokens of a line: the positions where a run of non-whitespace
\* starts.
TokenCount(s) ==
    Cardinality({x \in 1..Len(s) :
        /\ s[x] \notin Whitespace
        /\ (x = 1 \/ s[x - 1] \in Whitespace)})

Files == {"a", "b", "c", "d", "e", "f", "g", "h"}
EpSquares == {<<f, r>> : f \in Files, r \in {"3", "6"}}
Flags == {"K", "Q", "k", "q"}
FlagsOf(c) == {c[x] : x \in 1..Len(c)}

\* The ranks of the placement field and the first one that is malformed.
RanksOf(p) == SplitOn(p, "/")
FirstBadRank(rs) == Min({q \in 1..Len(rs) : ~WellFormedRank(rs[q])})

\* What makes each field unacceptable, stated on the text of the field.
PlacementBad(p) ==
    \/ SlashCount(p) # 7
    \/ LET rs == RanksOf(p) IN \E q \in 1..Len(rs) : ~WellFormedRank(rs[q])
SideBad(s) == s # <<"w">> /\ s # <<"b">>
CastlingBad(c) ==
    /\ c # <<"-">>
    /\ (~OnlyFrom(c, Flags) \/ Cardinality(FlagsOf(c)) # Len(c))
EpBad(e) == e # <<"-">> /\ e \notin EpSquares
HalfmoveBad(s) == s = <<>> \/ ~OnlyFrom(s, DecimalChars)
FullmoveBad(s) == HalfmoveBad(s) \/ DecimalOf(s) = 0

\* The checks of PassedOrder (by index) that the input fails.
InvalidChecks ==
    IF Len(parts) # 6 THEN {1}
    ELSE {k \in 2..7 :
            CASE k = 2 -> PlacementBad(parts[1])
              [] k = 3 -> SideBad(parts[2])
              [] k = 4 -> CastlingBad(parts[3])
              [] k = 5 -> EpBad(parts[4])
              [] k = 6 -> HalfmoveBad(parts[5])
              [] k = 7 -> FullmoveBad(parts[6])}

(***************************************************************************)
(* C1: parse_fen checks field count, placement, side, castling,            *)
(* en passant, halfmove, fullmove in that order and stops at the first     *)
(* check that fails: the exception raised belongs to the earliest invalid  *)
(* field, only the validators up to that field were called, and no         *)
(* FenRecord is returned.                                                  *)
(***************************************************************************)
C1_FailFast ==
    /\ pc = "raised" =>
          /\ InvalidChecks # {}
          /\ err[1].field = PassedOrder[Min(InvalidChecks)]
          /\ examined = SubSeq(PassedOrder, 2, Min(InvalidChecks))
          /\ result = <<>>
    /\ pc = "returned" => InvalidChecks = {} /\ err = <<>>
    /\ InvalidChecks # {} =>
          /\ result = <<>>
          /\ PassedCount < Min(InvalidChecks)
          /\ Len(examined) < Min(InvalidChecks)

C1_Witness ==
    /\ pc = "raised"
    /\ Cardinality(InvalidChecks) >= 3
    /\ err[1].field = "castling"
    /\ examined = <<"placement", "side", "castling">>

(***************************************************************************)
(* C2: every call of parse_fen ends either with a fully populated          *)
(* FenRecord or with a FenError tagged LEXICAL or SYNTACTIC, never with    *)
(* another exception type.                                                 *)
(***************************************************************************)
C2_RecordOrTaggedError ==
    Finished =>
        \/ /\ pc = "returned"
           /\ err = <<>>
           /\ result = <<FenRecord(board, side, castling, ep, hm, fn)>>
           /\ Len(board) = 8 /\ hm >= 0 /\ fn >= 1
        \/ /\ pc = "raised"
           /\ result = <<>>
           /\ err[1].type \in {"LexicalError", "ParseError"}
           /\ err[1].kind \in {LEXICAL, SYNTACTIC}

HasIllegalChar(p) ==
    ~OnlyFrom(p, ALL_PIECES \cup DIGITS_1_7 \cup {"8", "/"})

C4_IllegalCharAlwaysLexical ==
    (Finished /\ Len(parts) = 6 /\ HasIllegalChar(parts[1])) =>
        pc = "raised" /\ err[1].kind = LEXICAL

(***************************************************************************)
(* C4 amended: such an input always fails in the placement decoder, and    *)
(* the failure is LEXICAL, naming the character and its rank, exactly when *)
(* the placement has 8 ranks and the first offending character of its      *)
(* first malformed rank is such a character; when the rank count, or a     *)
(* misplaced 8 or a wrong row length met earlier, is the first violation,  *)
(* the failure is SYNTACTIC.                                               *)
(***************************************************************************)
C4_IllegalCharLexicalWhenReached ==
    (Finished /\ Len(parts) = 6 /\ HasIllegalChar(parts[1])) =>
        /\ FailedIn("placement")
        /\ LET rs == RanksOf(parts[1])
               r == FirstBadRank(rs)
               j == FirstOffence(rs[r])
           IN  IF Len(rs) = 8 /\ j # 0 /\ rs[r][j] # "8"
               THEN err[1].kind = LEXICAL /\ err[1].ch = rs[r][j]
                    /\ err[1].row = r
               ELSE err[1].kind = SYNTACTIC

C4_Witness ==
    /\ FailedIn("placement")
    /\ HasIllegalChar(parts[1])
    /\ err[1].kind = LEXICAL
    /\ err[1].ch = "x"
    /\ err[1].row = 1
    /\ ranks[1] = <<"p", "4", "x">>

(***************************************************************************)
(* C5: the digit 8 is legal only as the entire rank: the rank "8" decodes  *)
(* to 8 empty cells, a longer rank whose scan reaches an 8 fails           *)
(* SYNTACTIC, and a rank of digits 1-7 summing to 8 decodes to 8 empty     *)
(* cells.                                                                  *)
(***************************************************************************)
ReachesEight(rank) ==
    /\ Len(rank) > 1
    /\ FirstOffence(rank) # 0
    /\ rank[FirstOffence(rank)] = "8"

SumsToEight(rank) == OnlyFrom(rank, DIGITS_1_7) /\ Len(Expand(rank)) = 8

C6_RowThenCharacterOrder ==
    /\ FailedIn("placement") =>
          LET e == err[1]
              rs == RanksOf(parts[1])
          IN  IF SlashCount(parts[1]) # 7
              THEN /\ e = ParseError("placement", "rank_count", 0, "",
                                     SlashCount(parts[1]) + 1)
                   /\ i = 0
                   /\ board = Unbound
              ELSE LET r == FirstBadRank(rs)
                       j == FirstOffence(rs[r])
                   IN  /\ e.row = r
                       /\ Len(board) = r - 1
                       /\ IF j # 0
                          THEN /\ e.ch = rs[r][j]
                               /\ e.reason # "row_length"
                               /\ e.kind = IF rs[r][j] = "8" THEN SYNTACTIC
                                           ELSE LEXICAL
                          ELSE e = ParseError("placement", "row_length", r,
                                              "", Len(Expand(rs[r])))
    /\ (fen = EXAMPLE_INVALID_FEN /\ Finished) =>
          err = <<ParseError("placement", "row_length", 1, "", 14)>>

C6_Witness ==
    /\ fen = EXAMPLE_INVALID_FEN
    /\ pc = "raised"
    /\ \E x \in 1..Len(ranks[5]) : ranks[5][x] = "C"

(***************************************************************************)
(* C7 as stated: the stored castling value is a canonical set independent  *)
(* of input order: any valid castling field with the same flags in another *)
(* order decodes to the identical value.                                   *)
(***************************************************************************)
\* The castling fields holding the flags of c in any order.
Reorderings(c) ==
    {[x \in 1..Len(c) |-> c[f[x]]] : f \in Permutations(1..Len(c))}

C7_CastlingOrderIndependent ==
    pc = "returned" =>
        \A c \in Reorderings(parts[3]) :
            /\ ~_parse_castling(c).raised
            /\ _parse_castling(c).value = result[1].castling

(***************************************************************************)
(* C7 amended: the stored castling value is the input field unchanged: a   *)
(* valid field in any order is accepted, two fields with the same flags    *)
(* store the same set of flags, and the stored values are identical only   *)
(* when the fields are written in the same order.                          *)
(***************************************************************************)
C7_CastlingStoredAsWritten ==
    pc = "returned" =>
        /\ result[1].castling = parts[3]
        /\ \A c \in Reorderings(parts[3]) :
              /\ ~_parse_castling(c).raised
              /\ FlagsOf(_parse_castling(c).value)
                    = FlagsOf(result[1].castling)
              /\ (_parse_castling(c).value = result[1].castling) <=>
                    (c = parts[3])

C7_Witness ==
    /\ pc = "returned"
    /\ result[1].castling = <<"q", "k", "Q", "K">>
    /\ _parse_castling(<<"K", "Q", "k", "q">>).value # result[1].castling

(***************************************************************************)
(* C8: a line whose number N of whitespace-separated tokens is not 6       *)
(* (N = 0 for the empty line) fails with a SYNTACTIC error reporting N,    *)
(* before any field is inspected; whitespace around or between exactly 6   *)
(* tokens never causes this error.                                         *)
(***************************************************************************)
C8_FieldCount ==
    LET n == TokenCount(fen)
    IN  /\ FailedIn("count") =>
              /\ n # 6
              /\ err = <<ParseError("count", "field_count", 0, "", n)>>
              /\ examined = <<>>
              /\ ranks = Unbound
        /\ n # 6 => pc \in {"split", "count", "raised"}
        /\ (n # 6 /\ pc = "raised") => FailedIn("count")
        /\ pc # "split" => Len(parts) = n

C8_Witness ==
    /\ FailedIn("count")
    /\ err[1].n = 5
    /\ fen[1] = "\n"
    /\ fen[Len(fen)] = "\n"
    /\ \E x \in 1..(Len(fen) - 1) : fen[x] = " " /\ fen[x + 1] = " "

(***************************************************************************)
(* C9: the en-passant validator accepts exactly "-" and the 16 squares     *)
(* [a-h][36]; any other token is rejected, SYNTACTIC when its length is    *)
(* not 2, else LEXICAL when its first character is not a file a-h, else    *)
(* SYNTACTIC (its second character is not 3 or 6).                         *)
(***************************************************************************)
C9_EnPassant ==
    Over("en_passant") =>
        LET e == parts[4]
        IN  IF e = <<"-">> \/ e \in EpSquares
            THEN Passed("en_passant") /\ ep = e
            ELSE /\ FailedIn("en_passant")
                 /\ err[1].kind = IF Len(e) # 2 THEN SYNTACTIC
                                  ELSE IF e[1] \notin Files THEN LEXICAL
                                  ELSE SYNTACTIC

C9_Witness ==
    /\ FailedIn("en_passant")
    /\ parts[4] = <<"i", "4">>
    /\ err[1].kind = LEXICAL

(***************************************************************************)
(* C10: the halfmove validator never raises a SYNTACTIC error: every token *)
(* either fails LEXICAL or yields an integer >= 0.  The fullmove           *)
(* validator, after the same LEXICAL check, fails SYNTACTIC exactly when   *)
(* the value is 0 and succeeds for every value >= 1.                       *)
(***************************************************************************)
C10_NumericFields ==
    /\ Over("halfmove") =>
          \/ FailedIn("halfmove") /\ err[1].kind = LEXICAL
                /\ ~IsDigit(parts[5])
          \/ Passed("halfmove") /\ hm >= 0 /\ IsDigit(parts[5])
    /\ Over("fullmove") =>
          \/ FailedIn("fullmove") /\ err[1].kind = LEXICAL
                /\ ~IsDigit(parts[6])
          \/ FailedIn("fullmove") /\ err[1].kind = SYNTACTIC
                /\ IsDigit(parts[6]) /\ DecimalOf(parts[6]) = 0
          \/ Passed("fullmove") /\ fn >= 1 /\ IsDigit(parts[6])

====
